---------------------------- MODULE Spec2Model ----------------------------
(***************************************************************************)
(* Model of live_search.py: the raw-mode search prompt of the kitty live   *)
(* search kitten.  The state is the set of locals of main() that the       *)
(* nested closures share, the position of main() before, at and after     *)
(* the read loop, and the externally visible effects (marker on the target *)
(* window, the prompt line, the cache file, the terminal settings).        *)
(* Characters are their code points.                                       *)
(***************************************************************************)
EXTENDS Integers, Sequences, FiniteSets, TLC

(***************************************************************************)
(* Bounds of the exploration.                                              *)
(***************************************************************************)
MaxLen == 2
WordLen == 3

(***************************************************************************)
(* Bytes the program compares against.                                     *)
(***************************************************************************)
ETX == 3
TAB == 9
LF == 10
CR == 13
DC2 == 18
ESC == 27
DEL == 127
LBRACKET == 91
SEMICOLON == 59

(***************************************************************************)
(* Input alphabets: what the terminal may deliver at each read, and what   *)
(* the collaborators may answer.                                           *)
(***************************************************************************)
GroundIn == {3, 8, 9, 10, 13, 18, 27, 127, 97, 91}
BurstIn == {97, 13}
EscIn == {127, 91, 97}
CsiIn == {65, 66, 67, 68, 49, 50, 51, 72}
PasteIntroIn == { <<48, 48, 126>>, <<48, 49, 126>> }
Mod3In == {59, 126}
Mod4In == {51, 57, 53}
Mod5In == {67, 68, 65}
PasteIn == {97, 27}
PasteEndIn == { <<91, 50, 48, 49, 126>>, <<91, 50, 48, 48, 126>> }
Corpora == { <<>>, <<97, 65, 98, 10, 91>> }
CacheContents == { <<>>, <<97, 66, 10>> }
TermSettings == { "sane" }
\* characters of the texts the word-wise operations are tried on: a B 1 _
\* space tab, and the three texts foo_bar fooBar foo123
WordAlphabet == {97, 66, 49, 95, 32, 9}
WordExamples ==
    { <<102, 111, 111, 95, 98, 97, 114>>, <<102, 111, 111, 66, 97, 114>>,
      <<102, 111, 111, 49, 50, 51>> }

(***************************************************************************)
(* str helpers.                                                            *)
(***************************************************************************)
islower(c) == c >= 97 /\ c <= 122
isupper(c) == c >= 65 /\ c <= 90
isdigit(c) == c >= 48 /\ c <= 57
isblank(c) == c = 32 \/ c = 9
isspace(c) == c \in {9, 10, 11, 12, 13, 28, 29, 30, 31, 32}
lower(c) == IF isupper(c) THEN c + 32 ELSE c
isprintable(c) == c >= 32 /\ c < 127

\* text[i] with Python's 0-based index
At(text, i) == text[i + 1]
\* text[a:b] with Python's 0-based half-open slice, 0 <= a, b <= len
Slice(text, a, b) == IF b <= a THEN <<>> ELSE SubSeq(text, a + 1, b)

RECURSIVE lstrip(_)
lstrip(s) == IF s # <<>> /\ isspace(Head(s)) THEN lstrip(Tail(s)) ELSE s
RECURSIVE rstrip(_)
rstrip(s) ==
    IF s # <<>> /\ isspace(s[Len(s)]) THEN rstrip(SubSeq(s, 1, Len(s) - 1)) ELSE s
strip(s) == rstrip(lstrip(s))

(***************************************************************************)
(* Word boundaries.                                                        *)
(***************************************************************************)
RECURSIVE SkipBlanksLeft(_, _)
SkipBlanksLeft(text, i) ==
    IF i >= 0 /\ isblank(At(text, i)) THEN SkipBlanksLeft(text, i - 1) ELSE i

RECURSIVE SkipBlanksRight(_, _)
SkipBlanksRight(text, i) ==
    IF i < Len(text) /\ isblank(At(text, i)) THEN SkipBlanksRight(text, i + 1) ELSE i

\* the scan of find_word_boundary_backward without the camelCase test
RECURSIVE ScanBackwardDelete_NoCamel(_, _)
ScanBackwardDelete_NoCamel(text, i) ==
    IF i > 0
    THEN LET prev_char == At(text, i - 1)
             curr_char == At(text, i)
         IN  IF isblank(prev_char) THEN i
             ELSE IF prev_char = 95 \/ curr_char = 95
                  THEN (IF prev_char = 95 THEN i - 1 ELSE i)
             ELSE IF isdigit(prev_char) # isdigit(curr_char) THEN i
             ELSE ScanBackwardDelete_NoCamel(text, i - 1)
    ELSE i

RECURSIVE ScanBackwardDelete(_, _)
ScanBackwardDelete(text, i) ==
    IF i > 0
    THEN LET prev_char == At(text, i - 1)
             curr_char == At(text, i)
         IN  IF isblank(prev_char) THEN i
             ELSE IF prev_char = 95 \/ curr_char = 95
                  THEN (IF prev_char = 95 THEN i - 1 ELSE i)
             ELSE IF islower(prev_char) /\ isupper(curr_char) THEN i
             ELSE IF isdigit(prev_char) # isdigit(curr_char) THEN i
             ELSE ScanBackwardDelete(text, i - 1)
    ELSE i

find_word_boundary_backward(text, pos) ==
    IF pos = 0 THEN 0
    ELSE LET i == SkipBlanksLeft(text, pos - 1)
         IN  IF i < 0 THEN 0 ELSE ScanBackwardDelete(text, i)

RECURSIVE ScanBackwardMove(_, _)
ScanBackwardMove(text, i) ==
    IF i > 0
    THEN LET prev_char == At(text, i - 1)
             curr_char == At(text, i)
         IN  IF isblank(prev_char) THEN i
             ELSE IF prev_char = 95 \/ curr_char = 95 THEN i
             ELSE IF islower(prev_char) /\ isupper(curr_char) THEN i
             ELSE IF isdigit(prev_char) # isdigit(curr_char) THEN i
             ELSE ScanBackwardMove(text, i - 1)
    ELSE i

move_word_left(text, pos) ==
    IF pos = 0 THEN 0
    ELSE LET i == SkipBlanksLeft(text, pos - 1)
         IN  IF i < 0 THEN 0 ELSE ScanBackwardMove(text, i)

RECURSIVE ScanForward(_, _)
ScanForward(text, i) ==
    IF i < Len(text) - 1
    THEN LET curr_char == At(text, i)
             next_char == At(text, i + 1)
         IN  IF isblank(next_char) THEN i + 1
             ELSE IF next_char = 95 THEN i + 1
             ELSE IF islower(curr_char) /\ isupper(next_char) THEN i + 1
             ELSE IF isdigit(curr_char) # isdigit(next_char) THEN i + 1
             ELSE ScanForward(text, i + 1)
    ELSE i

move_word_right(text, pos) ==
    IF pos >= Len(text) THEN Len(text)
    ELSE LET i == SkipBlanksRight(text, pos)
         IN  IF i >= Len(text) THEN Len(text)
             ELSE LET j == ScanForward(text, i)
                  IN  IF j < Len(text) THEN j + 1 ELSE j

(***************************************************************************)
(* Search evaluator.  Over the characters of this model the only regex     *)
(* metacharacter is '[', and no ']' exists to close it, so re.compile      *)
(* raises exactly on the patterns that contain '['; every other pattern    *)
(* matches itself, as its re.escape'd form does.                           *)
(***************************************************************************)
Compiles(search_text, use_regex) ==
    ~use_regex \/ \A i \in 1..Len(search_text) : search_text[i] # LBRACKET

MatchAt(text, pat, i) ==
    /\ i + Len(pat) - 1 <= Len(text)
    /\ \A j \in 1..Len(pat) : lower(text[i + j - 1]) = lower(pat[j])

RECURSIVE FindAllFrom(_, _, _)
FindAllFrom(text, pat, i) ==
    IF i + Len(pat) - 1 > Len(text) THEN 0
    ELSE IF MatchAt(text, pat, i) THEN 1 + FindAllFrom(text, pat, i + Len(pat))
    ELSE FindAllFrom(text, pat, i + 1)

\* count_matches falling back to the literal text when re.compile fails
count_matches_LiteralFallback(text, search_text, use_regex) ==
    IF search_text = <<>> THEN 0
    ELSE FindAllFrom(text, search_text, 1)

count_matches(text, search_text, use_regex) ==
    IF search_text = <<>> THEN 0
    ELSE IF ~Compiles(search_text, use_regex) THEN 0
    ELSE FindAllFrom(text, search_text, 1)

(***************************************************************************)
(* State.                                                                  *)
(*   pc                 "Start" before raw mode is entered, "Editing" at   *)
(*                      the read at the top of the while loop, "Exited"    *)
(*                      after the finally block                            *)
(*   search_text .. cached_scrollback   the locals of main()               *)
(*   marker             highlight currently set on the target window       *)
(*   screen             what the prompt line shows                         *)
(*   cache_file         content of CACHE_FILE                              *)
(*   tty, old_settings, bracketed_paste   terminal state                   *)
(*   calls              collaborator calls issued by the last step         *)
(*   consumed           bytes the last step read from stdin, in order;     *)
(*                      a history variable: nothing of it is kept when     *)
(*                      trace is "none", the first byte when "first",       *)
(*                      every byte when "all"                              *)
(*   event              key event decoded by the last step; a step that    *)
(*                      ends in "Exited" on any event but Enter, Interrupt *)
(*                      and EscapeCancel was ended by an exception         *)
(* One step is one iteration of the loop: it consumes the bytes the        *)
(* iteration reads and runs the handler to the next blocking read.         *)
(***************************************************************************)
VARIABLES pc, search_text, cursor_pos, use_regex, auto_jump,
          should_clear_on_exit, last_counter, cached_scrollback,
          marker, screen, cache_file, tty, old_settings, bracketed_paste,
          calls, event, consumed, trace

vars == <<pc, search_text, cursor_pos, use_regex, auto_jump,
          should_clear_on_exit, last_counter, cached_scrollback,
          marker, screen, cache_file, tty, old_settings, bracketed_paste,
          calls, event, consumed, trace>>

\* a logged call: get_text carries the text it returned, create_marker and
\* write_cache the text they were given
Call(op, text, regex) == [op |-> op, text |-> text, regex |-> regex]
Op(op) == Call(op, <<>>, FALSE)
NoMarker == [on |-> FALSE, text |-> <<>>, regex |-> FALSE]
InitialMarkers == { NoMarker, [on |-> TRUE, text |-> <<67>>, regex |-> FALSE] }
BlankScreen == [prompt |-> <<>>, text |-> <<>>, counter |-> <<>>, cursor |-> 0]

\* the locals and effects a handler works on
Cur ==
    [search_text |-> search_text, cursor_pos |-> cursor_pos,
     use_regex |-> use_regex, auto_jump |-> auto_jump,
     should_clear_on_exit |-> should_clear_on_exit,
     last_counter |-> last_counter, cached_scrollback |-> cached_scrollback,
     marker |-> marker, screen |-> screen, calls |-> <<>>, raised |-> FALSE]

get_prompt(s) ==
    (IF s.use_regex THEN <<"Regex">> ELSE <<>>) \o
    (IF s.auto_jump THEN <<"Jump">> ELSE <<>>)

remove_marker(s) ==
    [s EXCEPT !.calls = @ \o <<Op("remove_marker")>>, !.marker = NoMarker]

create_marker(s, text, use_regex_) ==
    IF text = <<>> THEN remove_marker(s)
    ELSE [s EXCEPT !.calls = @ \o <<Call("create_marker", text, use_regex_)>>,
                   !.marker = [on |-> TRUE, text |-> text, regex |-> use_regex_]]

\* get_window_info fails (json.loads raises), finds no window, or answers
JumpOutcomes ==
    { [calls |-> <<Op("ls")>>, raised |-> TRUE],
      [calls |-> <<Op("ls")>>, raised |-> FALSE],
      [calls |-> <<Op("ls"), Op("scroll_prev"), Op("ls")>>, raised |-> TRUE],
      [calls |-> <<Op("ls"), Op("scroll_prev"), Op("ls")>>, raised |-> FALSE],
      [calls |-> <<Op("ls"), Op("scroll_prev"), Op("ls"), Op("scroll_next")>>,
       raised |-> FALSE] }

jump_to_closest_match(s) ==
    { [s EXCEPT !.calls = @ \o <<Op("jump")>> \o o.calls, !.raised = o.raised] :
        o \in JumpOutcomes }

\* redraw_prompt with the auto_jump test at line 496 left out
redraw_prompt_AlwaysJumps(s, update_markers, jump_to_match) ==
    IF s.search_text # <<>> /\ update_markers
    THEN UNION { LET total == count_matches(corpus, s.search_text, s.use_regex)
                     counter == <<total>>
                     s1 == [s EXCEPT !.cached_scrollback = <<corpus>>,
                                     !.calls = @ \o <<Call("get_text", corpus, FALSE)>>,
                                     !.last_counter = counter,
                                     !.screen = [prompt |-> get_prompt(s),
                                                 text |-> s.search_text,
                                                 counter |-> counter,
                                                 cursor |-> s.cursor_pos]]
                     s2 == create_marker(s1, s.search_text, s.use_regex)
                 IN  IF jump_to_match /\ s2.last_counter # <<>>
                        /\ s2.last_counter[1] > 0
                     THEN jump_to_closest_match(s2)
                     ELSE {s2}
               : corpus \in Corpora }
    ELSE { [s EXCEPT !.screen = [prompt |-> get_prompt(s),
                                 text |-> s.search_text,
                                 counter |-> IF s.search_text # <<>>
                                             THEN s.last_counter ELSE <<>>,
                                 cursor |-> s.cursor_pos]] }

redraw_prompt(s, update_markers, jump_to_match) ==
    IF s.search_text # <<>> /\ update_markers
    THEN UNION { LET total == count_matches(corpus, s.search_text, s.use_regex)
                     counter == <<total>>
                     s1 == [s EXCEPT !.cached_scrollback = <<corpus>>,
                                     !.calls = @ \o <<Call("get_text", corpus, FALSE)>>,
                                     !.last_counter = counter,
                                     !.screen = [prompt |-> get_prompt(s),
                                                 text |-> s.search_text,
                                                 counter |-> counter,
                                                 cursor |-> s.cursor_pos]]
                     s2 == create_marker(s1, s.search_text, s.use_regex)
                 IN  IF s.auto_jump /\ jump_to_match /\ s2.last_counter # <<>>
                        /\ s2.last_counter[1] > 0
                     THEN jump_to_closest_match(s2)
                     ELSE {s2}
               : corpus \in Corpora }
    ELSE { [s EXCEPT !.screen = [prompt |-> get_prompt(s),
                                 text |-> s.search_text,
                                 counter |-> IF s.search_text # <<>>
                                             THEN s.last_counter ELSE <<>>,
                                 cursor |-> s.cursor_pos]] }

load_last_search == strip(cache_file)

TypeOK ==
    /\ pc \in {"Start", "Editing", "Exited"}
    /\ cursor_pos \in 0..(MaxLen + 1)
    /\ use_regex \in BOOLEAN /\ auto_jump \in BOOLEAN
    /\ should_clear_on_exit \in BOOLEAN
    /\ Len(last_counter) <= 1
    /\ Len(cached_scrollback) <= 1
    /\ bracketed_paste \in BOOLEAN

Start(caches, tracing) ==
    /\ pc = "Start"
    /\ search_text = <<>>
    /\ cursor_pos = 0
    /\ use_regex = FALSE
    /\ auto_jump = FALSE
    /\ should_clear_on_exit = FALSE
    /\ last_counter = <<>>
    /\ cached_scrollback = <<>>
    /\ marker \in InitialMarkers
    /\ screen = BlankScreen
    /\ cache_file \in caches
    /\ old_settings \in TermSettings
    /\ tty = old_settings
    /\ bracketed_paste = FALSE
    /\ calls = <<>>
    /\ event = "Init"
    /\ consumed = <<>>
    /\ trace = tracing

Init == Start(CacheContents, "none")
\* no previous search term, the bytes of every step recorded
DecoderInit == Start({<<>>}, "all")
\* no previous search term, the first byte of every step recorded
DispatchInit == Start({<<>>}, "first")

(***************************************************************************)
(* Leaving a handler: store the locals; a raised exception unwinds to the  *)
(* finally block of main().                                                *)
(***************************************************************************)
\* the bytes an iteration took from stdin
Reads(bytes) ==
    /\ consumed' = IF trace = "all" THEN bytes
                   ELSE IF trace = "first" /\ bytes # <<>> THEN <<bytes[1]>>
                   ELSE <<>>
    /\ trace' = trace

Store(s) ==
    /\ search_text' = s.search_text
    /\ cursor_pos' = s.cursor_pos
    /\ use_regex' = s.use_regex
    /\ auto_jump' = s.auto_jump
    /\ should_clear_on_exit' = s.should_clear_on_exit
    /\ last_counter' = s.last_counter
    /\ cached_scrollback' = s.cached_scrollback
    /\ marker' = s.marker
    /\ screen' = s.screen
    /\ calls' = s.calls

\* the finally block without tcsetattr
Finally_NoRestore ==
    /\ bracketed_paste' = FALSE
    /\ pc' = "Exited"
    /\ UNCHANGED <<tty, old_settings>>

Finally ==
    /\ bracketed_paste' = FALSE
    /\ tty' = old_settings
    /\ pc' = "Exited"
    /\ UNCHANGED old_settings

\* back to the top of the while loop, or out through finally on an exception
Continue(s, ev) ==
    /\ Store(s)
    /\ UNCHANGED cache_file
    /\ event' = ev
    /\ IF s.raised
       THEN Finally
       ELSE /\ pc' = "Editing"
            /\ UNCHANGED <<tty, old_settings, bracketed_paste>>

(***************************************************************************)
(* save_last_search: write_text may fail, the except clause swallows it.   *)
(***************************************************************************)
save_last_search(s, wrote) ==
    /\ calls' = s.calls \o <<Call("write_cache", s.search_text, FALSE)>> \o
                (IF ~wrote THEN <<>>
                 ELSE IF s.search_text # <<>> THEN <<Op("save_position")>>
                 ELSE <<Op("unlink_position")>>)
    /\ cache_file' = IF wrote THEN s.search_text ELSE cache_file

\* lines 693-696 with the reset of search_text left out
ClearIfCancelled_KeepsText(s) ==
    IF s.should_clear_on_exit THEN remove_marker(s) ELSE s

\* lines 693-696
ClearIfCancelled(s) ==
    IF s.should_clear_on_exit
    THEN [remove_marker(s) EXCEPT !.search_text = <<>>]
    ELSE s

\* lines 693-707: the code after the loop and the finally block
Close(s0, ev) ==
    \E wrote \in BOOLEAN :
        LET s1 == ClearIfCancelled(s0)
        IN  /\ search_text' = s1.search_text
            /\ cursor_pos' = s1.cursor_pos
            /\ use_regex' = s1.use_regex
            /\ auto_jump' = s1.auto_jump
            /\ should_clear_on_exit' = s1.should_clear_on_exit
            /\ last_counter' = s1.last_counter
            /\ cached_scrollback' = s1.cached_scrollback
            /\ marker' = s1.marker
            /\ screen' = s1.screen
            /\ save_last_search(s1, wrote)
            /\ Finally
            /\ event' = ev

(***************************************************************************)
(* Lines 440-512: raw mode, bracketed paste on, reload the last search.    *)
(***************************************************************************)
\* entering the loop after start-up, or unwinding if start-up raised
EnterLoop(s) ==
    /\ Store(s)
    /\ UNCHANGED cache_file
    /\ event' = "Startup"
    /\ Reads(<<>>)
    /\ IF s.raised
       THEN Finally
       ELSE /\ pc' = "Editing"
            /\ tty' = "raw"
            /\ bracketed_paste' = TRUE
            /\ UNCHANGED old_settings

Startup ==
    /\ pc = "Start"
    /\ LET loaded == load_last_search
           s0 == [Cur EXCEPT !.search_text = loaded, !.cursor_pos = Len(loaded),
                             !.use_regex = FALSE, !.auto_jump = FALSE,
                             !.should_clear_on_exit = FALSE,
                             !.last_counter = <<>>, !.cached_scrollback = <<>>]
       IN  \E s1 \in redraw_prompt(s0, TRUE, TRUE) :
             IF s1.search_text # <<>>
             THEN LET s2 == create_marker(s1, s1.search_text, s1.use_regex)
                  IN  \E scrollback \in Corpora :
                        LET s3 == [s2 EXCEPT !.calls = @ \o
                                       <<Call("get_text", scrollback, FALSE)>>]
                            total == count_matches(scrollback, s3.search_text,
                                                   s3.use_regex)
                        IN  IF total > 0
                            THEN \E s4 \in jump_to_closest_match(s3) : EnterLoop(s4)
                            ELSE EnterLoop(s3)
             ELSE EnterLoop(s1)

(***************************************************************************)
(* The read loop (lines 514-691), one action per path through an           *)
(* iteration.  char, next1 .. next5, rest are the bytes the path reads.    *)
(***************************************************************************)
PasteStart == <<48, 48, 126>>
PasteEndMarker == <<91, 50, 48, 49, 126>>

SeqsUpTo(S, n) == UNION { [1..k -> S] : k \in 0..n }

\* the fragment appended instead of spliced in at the cursor
Splice_Append(text, pos, fragment) == text \o fragment

Splice(text, pos, fragment) ==
    Slice(text, 0, pos) \o fragment \o Slice(text, pos, Len(text))

\* lines 598-599 and 611: the iteration has read ESC and then "["
ReadCsi == ESC \in GroundIn /\ LBRACKET \in EscIn

\* lines 667-672 and 679-680: after ESC [ the iteration has read "1", ";"
\* and a modifier 3 or 9
ReadModifier ==
    /\ ReadCsi /\ 49 \in CsiIn /\ SEMICOLON \in Mod3In
    /\ Mod4In \cap {51, 57} # {}

\* lines 518-541: a printable byte and whatever printable bytes select()
\* reports as already readable; a non-printable next_char read by the drain
\* loop ends the burst and is not handled (next_char = 0: select() said no)
CharInsert ==
    /\ pc = "Editing"
    /\ Len(search_text) < MaxLen
    /\ \E char \in {c \in GroundIn : isprintable(c)},
          rest \in SeqsUpTo({c \in BurstIn : isprintable(c)},
                            MaxLen - Len(search_text) - 1),
          next_char \in {0} \cup {c \in BurstIn : ~isprintable(c)} :
         /\ LET buffered == <<char>> \o rest
                text == Splice(search_text, cursor_pos, buffered)
                s == [Cur EXCEPT !.search_text = text,
                                 !.cursor_pos = @ + Len(buffered)]
            IN  /\ Len(text) <= MaxLen
                /\ Reads(buffered \o
                         (IF next_char = 0 THEN <<>> ELSE <<next_char>>))
                /\ Continue([s EXCEPT !.screen = [prompt |-> get_prompt(s),
                                                  text |-> text,
                                                  counter |-> <<>>,
                                                  cursor |-> s.cursor_pos]],
                            "Char")

\* lines 543-546
Interrupt ==
    /\ pc = "Editing"
    /\ ETX \in GroundIn /\ Reads(<<ETX>>)
    /\ Close([Cur EXCEPT !.should_clear_on_exit = TRUE], "Interrupt")

\* lines 548-551
Refresh ==
    /\ pc = "Editing"
    /\ DC2 \in GroundIn /\ Reads(<<DC2>>)
    /\ IF search_text # <<>>
       THEN \E s \in redraw_prompt(Cur, TRUE, TRUE) : Continue(s, "Refresh")
       ELSE Continue(Cur, "Refresh")

\* lines 553-556
ToggleRegex ==
    /\ pc = "Editing"
    /\ TAB \in GroundIn /\ Reads(<<TAB>>)
    /\ \E s \in redraw_prompt([Cur EXCEPT !.use_regex = ~@], TRUE, TRUE) :
         Continue(s, "ToggleRegex")

\* lines 558-561
ToggleAutoJump ==
    /\ pc = "Editing"
    /\ LF \in GroundIn /\ Reads(<<LF>>)
    /\ \E s \in redraw_prompt([Cur EXCEPT !.auto_jump = ~@], FALSE, FALSE) :
         Continue(s, "ToggleAutoJump")

\* Enter without line 582
Enter_KeepsClearFlag ==
    /\ pc = "Editing"
    /\ CR \in GroundIn /\ Reads(<<CR>>)
    /\ IF search_text # <<>>
       THEN \E corpus \in Corpora :
              LET total == count_matches(corpus, search_text, use_regex)
                  s1 == [Cur EXCEPT !.cached_scrollback = <<corpus>>,
                                    !.calls = @ \o
                                        <<Call("get_text", corpus, FALSE)>>]
                  s2 == create_marker(s1, search_text, use_regex)
                  s3 == [s2 EXCEPT !.screen = [prompt |-> get_prompt(s2),
                                               text |-> search_text,
                                               counter |-> <<total>>,
                                               cursor |-> Len(search_text) + 4]]
              IN  Close(s3, "Enter")
       ELSE Close(Cur, "Enter")

\* lines 563-583, then the code after the loop
Enter ==
    /\ pc = "Editing"
    /\ CR \in GroundIn /\ Reads(<<CR>>)
    /\ IF search_text # <<>>
       THEN \E corpus \in Corpora :
              LET total == count_matches(corpus, search_text, use_regex)
                  s1 == [Cur EXCEPT !.cached_scrollback = <<corpus>>,
                                    !.calls = @ \o
                                        <<Call("get_text", corpus, FALSE)>>]
                  s2 == create_marker(s1, search_text, use_regex)
                  s3 == [s2 EXCEPT !.screen = [prompt |-> get_prompt(s2),
                                               text |-> search_text,
                                               counter |-> <<total>>,
                                               cursor |-> Len(search_text) + 4],
                                   !.should_clear_on_exit = FALSE]
              IN  Close(s3, "Enter")
       ELSE Close([Cur EXCEPT !.should_clear_on_exit = FALSE], "Enter")

\* Backspace redrawing without a search
Backspace_NoSearch ==
    /\ pc = "Editing"
    /\ DEL \in GroundIn /\ Reads(<<DEL>>)
    /\ IF cursor_pos > 0
       THEN LET text == Slice(search_text, 0, cursor_pos - 1) \o
                        Slice(search_text, cursor_pos, Len(search_text))
                s1 == [Cur EXCEPT !.search_text = text, !.cursor_pos = @ - 1]
                s2 == IF text = <<>>
                      THEN remove_marker([s1 EXCEPT !.should_clear_on_exit = TRUE])
                      ELSE s1
            IN  \E s \in redraw_prompt(s2, FALSE, FALSE) : Continue(s, "Backspace")
       ELSE Continue(Cur, "Backspace")

\* lines 586-595
Backspace ==
    /\ pc = "Editing"
    /\ DEL \in GroundIn /\ Reads(<<DEL>>)
    /\ IF cursor_pos > 0
       THEN LET text == Slice(search_text, 0, cursor_pos - 1) \o
                        Slice(search_text, cursor_pos, Len(search_text))
                s1 == [Cur EXCEPT !.search_text = text, !.cursor_pos = @ - 1]
                s2 == IF text = <<>>
                      THEN remove_marker([s1 EXCEPT !.should_clear_on_exit = TRUE])
                      ELSE s1
            IN  \E s \in redraw_prompt(s2, TRUE, TRUE) : Continue(s, "Backspace")
       ELSE Continue(Cur, "Backspace")

\* a byte outside the chain handled the way line 587 handles DEL
IgnoredByte_Deletes ==
    /\ pc = "Editing"
    /\ \E char \in {c \in GroundIn : ~isprintable(c)}
                       \ {ETX, DC2, TAB, LF, CR, DEL, ESC} :
         Reads(<<char>>)
    /\ IF cursor_pos > 0
       THEN LET text == Slice(search_text, 0, cursor_pos - 1) \o
                        Slice(search_text, cursor_pos, Len(search_text))
                s1 == [Cur EXCEPT !.search_text = text, !.cursor_pos = @ - 1]
                s2 == IF text = <<>>
                      THEN remove_marker([s1 EXCEPT !.should_clear_on_exit = TRUE])
                      ELSE s1
            IN  \E s \in redraw_prompt(s2, TRUE, TRUE) : Continue(s, "Backspace")
       ELSE Continue(Cur, "Backspace")

\* no branch of the if/elif chain matches: the byte is consumed, nothing else
IgnoredByte ==
    /\ pc = "Editing"
    /\ \E char \in {c \in GroundIn : ~isprintable(c)}
                       \ {ETX, DC2, TAB, LF, CR, DEL, ESC} :
         Reads(<<char>>)
    /\ Continue(Cur, "None")

\* WordBackspace without lines 607-609
WordBackspace_KeepsHighlight ==
    /\ pc = "Editing"
    /\ ESC \in GroundIn /\ DEL \in EscIn /\ Reads(<<ESC, DEL>>)
    /\ IF cursor_pos > 0
       THEN LET new_pos == find_word_boundary_backward(search_text, cursor_pos)
                text == Slice(search_text, 0, new_pos) \o
                        Slice(search_text, cursor_pos, Len(search_text))
                s1 == [Cur EXCEPT !.search_text = text, !.cursor_pos = new_pos]
            IN  \E s \in redraw_prompt(s1, TRUE, TRUE) :
                  Continue(s, "WordBackspace")
       ELSE Continue(Cur, "WordBackspace")

\* lines 598-610
WordBackspace ==
    /\ pc = "Editing"
    /\ ESC \in GroundIn /\ DEL \in EscIn /\ Reads(<<ESC, DEL>>)
    /\ IF cursor_pos > 0
       THEN LET new_pos == find_word_boundary_backward(search_text, cursor_pos)
                text == Slice(search_text, 0, new_pos) \o
                        Slice(search_text, cursor_pos, Len(search_text))
                s1 == [Cur EXCEPT !.search_text = text, !.cursor_pos = new_pos]
                s2 == IF text = <<>>
                      THEN remove_marker([s1 EXCEPT !.should_clear_on_exit = TRUE])
                      ELSE s1
            IN  \E s \in redraw_prompt(s2, TRUE, TRUE) :
                  Continue(s, "WordBackspace")
       ELSE Continue(Cur, "WordBackspace")

\* bare ESC leaving without line 690
BareEscape_NoClear ==
    /\ pc = "Editing"
    /\ ESC \in GroundIn
    /\ \E next1 \in EscIn \ {DEL, LBRACKET} : Reads(<<ESC, next1>>)
    /\ Close(Cur, "EscapeCancel")

\* lines 688-691, then the code after the loop
BareEscape ==
    /\ pc = "Editing"
    /\ ESC \in GroundIn
    /\ \E next1 \in EscIn \ {DEL, LBRACKET} : Reads(<<ESC, next1>>)
    /\ Close([Cur EXCEPT !.should_clear_on_exit = TRUE], "EscapeCancel")

\* lines 614-616: ESC [ 2 and a read(3) that is not "00~"; next2 = "2"
\* matches none of the branches that follow
PasteIntroMismatch ==
    /\ pc = "Editing"
    /\ ReadCsi /\ 50 \in CsiIn
    /\ \E rest \in PasteIntroIn \ {PasteStart} :
         Reads(<<ESC, LBRACKET, 50>> \o rest)
    /\ Continue(Cur, "None")

\* What the capture loop (lines 619-627) reads: a byte other than ESC joins
\* the paste; an ESC is followed by a read(5), and when that is not "[201~"
\* the ESC joins the paste and the five bytes are gone.
PasteChunks ==
    { <<c, <<>>>> : c \in PasteIn \ {ESC} } \cup
    { <<ESC, five>> : five \in PasteEndIn \ {PasteEndMarker} }
Pasted(chunks) == [i \in 1..Len(chunks) |-> chunks[i][1]]
\* every byte the capture loop read for these chunks
RECURSIVE Received(_)
Received(chunks) ==
    IF chunks = <<>> THEN <<>>
    ELSE <<Head(chunks)[1]>> \o Head(chunks)[2] \o Received(Tail(chunks))

\* lines 614-633: ESC [ 2 0 0 ~, the captured chunks, ESC [ 2 0 1 ~
Paste ==
    /\ pc = "Editing"
    /\ ReadCsi /\ 50 \in CsiIn
    /\ PasteStart \in PasteIntroIn
    /\ PasteEndMarker \in PasteEndIn
    /\ \E chunks \in SeqsUpTo(PasteChunks, MaxLen - Len(search_text)) :
         LET pasted == Pasted(chunks)
             text == Splice(search_text, cursor_pos, pasted)
             s1 == [Cur EXCEPT !.search_text = text,
                               !.cursor_pos = @ + Len(pasted)]
         IN  /\ Reads(<<ESC, LBRACKET, 50>> \o PasteStart \o
                       Received(chunks) \o <<ESC>> \o PasteEndMarker)
             /\ \E s \in redraw_prompt(s1, TRUE, TRUE) : Continue(s, "Paste")

\* ScrollPrev without the test at line 635
ScrollPrev_Unguarded ==
    /\ pc = "Editing"
    /\ ReadCsi /\ 65 \in CsiIn /\ Reads(<<ESC, LBRACKET, 65>>)
    /\ \E s \in (IF last_counter = <<>>
                 THEN redraw_prompt(Cur, TRUE, TRUE) ELSE {Cur}) :
         Continue(IF s.raised THEN s
                  ELSE [s EXCEPT !.calls = @ \o <<Op("scroll_prev")>>],
                  "ScrollPrev")

\* lines 634-643
ScrollPrev ==
    /\ pc = "Editing"
    /\ ReadCsi /\ 65 \in CsiIn /\ Reads(<<ESC, LBRACKET, 65>>)
    /\ IF search_text # <<>>
       THEN \E s \in (IF last_counter = <<>>
                      THEN redraw_prompt(Cur, TRUE, TRUE) ELSE {Cur}) :
              Continue(IF s.raised THEN s
                       ELSE [s EXCEPT !.calls = @ \o <<Op("scroll_prev")>>],
                       "ScrollPrev")
       ELSE Continue(Cur, "ScrollPrev")

\* lines 645-655
ScrollNext ==
    /\ pc = "Editing"
    /\ ReadCsi /\ 66 \in CsiIn /\ Reads(<<ESC, LBRACKET, 66>>)
    /\ IF search_text # <<>>
       THEN \E s \in (IF last_counter = <<>>
                      THEN redraw_prompt(Cur, TRUE, TRUE) ELSE {Cur}) :
              Continue(IF s.raised THEN s
                       ELSE [s EXCEPT !.calls = @ \o <<Op("scroll_next")>>],
                       "ScrollNext")
       ELSE Continue(Cur, "ScrollNext")

\* CursorRight without the test at line 658
CursorRight_Unguarded ==
    /\ pc = "Editing"
    /\ ReadCsi /\ 67 \in CsiIn /\ Reads(<<ESC, LBRACKET, 67>>)
    /\ \E s \in redraw_prompt([Cur EXCEPT !.cursor_pos = @ + 1], FALSE, FALSE) :
         Continue(s, "CursorRight")

\* lines 657-660
CursorRight ==
    /\ pc = "Editing"
    /\ ReadCsi /\ 67 \in CsiIn /\ Reads(<<ESC, LBRACKET, 67>>)
    /\ IF cursor_pos < Len(search_text)
       THEN \E s \in redraw_prompt([Cur EXCEPT !.cursor_pos = @ + 1], FALSE, FALSE) :
              Continue(s, "CursorRight")
       ELSE Continue(Cur, "CursorRight")

\* CursorLeft redrawing with the default arguments of redraw_prompt
CursorLeft_Searches ==
    /\ pc = "Editing"
    /\ ReadCsi /\ 68 \in CsiIn /\ Reads(<<ESC, LBRACKET, 68>>)
    /\ IF cursor_pos > 0
       THEN \E s \in redraw_prompt([Cur EXCEPT !.cursor_pos = @ - 1], TRUE, TRUE) :
              Continue(s, "CursorLeft")
       ELSE Continue(Cur, "CursorLeft")

\* lines 662-665
CursorLeft ==
    /\ pc = "Editing"
    /\ ReadCsi /\ 68 \in CsiIn /\ Reads(<<ESC, LBRACKET, 68>>)
    /\ IF cursor_pos > 0
       THEN \E s \in redraw_prompt([Cur EXCEPT !.cursor_pos = @ - 1], FALSE, FALSE) :
              Continue(s, "CursorLeft")
       ELSE Continue(Cur, "CursorLeft")

\* ESC [ and a next2 none of the branches knows
CsiUnknown ==
    /\ pc = "Editing"
    /\ ReadCsi
    /\ \E next2 \in CsiIn \ {50, 65, 66, 67, 68, 49} :
         Reads(<<ESC, LBRACKET, next2>>)
    /\ Continue(Cur, "None")

\* lines 667-672 and 679: ESC [ 1, then next3 and next4 are read whatever
\* they are; anything but ";3" and ";9" ends the iteration
ModifierUnknown ==
    /\ pc = "Editing"
    /\ ReadCsi /\ 49 \in CsiIn
    /\ \E n \in {n \in Mod3In \X Mod4In :
                   ~(n[1] = SEMICOLON /\ (n[2] = 51 \/ n[2] = 57))} :
         Reads(<<ESC, LBRACKET, 49, n[1], n[2]>>)
    /\ Continue(Cur, "None")

\* lines 673-675 and 681-683
WordRight ==
    /\ pc = "Editing"
    /\ ReadModifier
    /\ 67 \in Mod5In
    /\ \E next4 \in Mod4In \cap {51, 57} :
         Reads(<<ESC, LBRACKET, 49, SEMICOLON, next4, 67>>)
    /\ \E s \in redraw_prompt(
           [Cur EXCEPT !.cursor_pos = move_word_right(search_text, cursor_pos)],
           FALSE, FALSE) :
         Continue(s, "WordRight")

\* lines 676-678 and 684-686
WordLeft ==
    /\ pc = "Editing"
    /\ ReadModifier
    /\ 68 \in Mod5In
    /\ \E next4 \in Mod4In \cap {51, 57} :
         Reads(<<ESC, LBRACKET, 49, SEMICOLON, next4, 68>>)
    /\ \E s \in redraw_prompt(
           [Cur EXCEPT !.cursor_pos = move_word_left(search_text, cursor_pos)],
           FALSE, FALSE) :
         Continue(s, "WordLeft")

\* ESC [ 1 ; 3 or ESC [ 1 ; 9 and a next5 that is neither C nor D
ModKeyUnknown ==
    /\ pc = "Editing"
    /\ ReadModifier
    /\ \E next4 \in Mod4In \cap {51, 57}, next5 \in Mod5In \ {67, 68} :
         Reads(<<ESC, LBRACKET, 49, SEMICOLON, next4, next5>>)
    /\ Continue(Cur, "None")

Next ==
    \/ Startup
    \/ CharInsert
    \/ Interrupt
    \/ Refresh
    \/ ToggleRegex
    \/ ToggleAutoJump
    \/ Enter
    \/ Backspace
    \/ IgnoredByte
    \/ WordBackspace
    \/ BareEscape
    \/ PasteIntroMismatch
    \/ Paste
    \/ ScrollPrev
    \/ ScrollNext
    \/ CursorRight
    \/ CursorLeft
    \/ CsiUnknown
    \/ ModifierUnknown
    \/ WordRight
    \/ WordLeft
    \/ ModKeyUnknown

Spec == Init /\ [][Next]_vars
DecoderSpec == DecoderInit /\ [][Next]_vars
DispatchSpec == DispatchInit /\ [][Next]_vars

(***************************************************************************)
(* The word-wise operations on their own: the loop is entered with a text  *)
(* that was typed and a cursor that was moved, and only the word-wise keys *)
(* are pressed.                                                            *)
(***************************************************************************)
WordTexts == SeqsUpTo(WordAlphabet, WordLen) \cup WordExamples

WordInit ==
    /\ pc = "Editing"
    /\ search_text \in WordTexts
    /\ cursor_pos \in 0..Len(search_text)
    /\ use_regex = FALSE
    /\ auto_jump = FALSE
    /\ should_clear_on_exit = FALSE
    /\ last_counter = <<>>
    /\ cached_scrollback = <<>>
    /\ marker = NoMarker
    /\ screen = [prompt |-> <<>>, text |-> search_text, counter |-> <<>>,
                 cursor |-> cursor_pos]
    /\ cache_file = <<>>
    /\ old_settings \in TermSettings
    /\ tty = "raw"
    /\ bracketed_paste = TRUE
    /\ calls = <<>>
    /\ event = IF search_text = <<>> THEN "Startup"
               ELSE IF cursor_pos = Len(search_text) THEN "Char"
               ELSE "CursorLeft"
    /\ consumed = <<>>
    /\ trace = "none"

WordNext == WordBackspace \/ WordLeft \/ WordRight
WordSpec == WordInit /\ [][WordNext]_vars

(***************************************************************************)
(* Properties.                                                             *)
(***************************************************************************)
\* lines 693-696 have discarded the text; cursor_pos is dead from there on
Cancelled == pc = "Exited" /\ event \in {"Interrupt", "EscapeCancel"}
HasCall(op) == \E i \in 1..Len(calls) : calls[i].op = op
\* the step ended by an exception, not by a terminating key
Raised == pc = "Exited" /\ event \notin {"Enter", "Interrupt", "EscapeCancel"}
\* the corpus the last get_text of the step returned
LastFetch ==
    LET I == {i \in 1..Len(calls) : calls[i].op = "get_text"}
    IN  calls[CHOOSE i \in I : \A j \in I : j <= i].text
MarkerFor(text, regex) == [on |-> TRUE, text |-> text, regex |-> regex]

\* C1: in every state the input bytes can lead to - before, inside and
\* after the read loop, up to the point where a cancelled session discards
\* its text - the cursor offset lies between 0 and the length of the text.
C1_CursorInRange ==
    ~Cancelled => (0 <= cursor_pos /\ cursor_pos <= Len(search_text))

\* a word-wise move has just stopped at a boundary inside the text
C1_Witness ==
    /\ pc = "Editing"
    /\ event \in {"WordLeft", "WordRight"}
    /\ 0 < cursor_pos /\ cursor_pos < Len(search_text)

\* C2: a step leaves the read loop only on an Enter, Interrupt or bare
\* Escape event; every other byte sequence leaves the session in the loop.
C2_OnlyTerminatingEvents ==
    [][(pc = "Editing" /\ pc' # "Editing")
          => event' \in {"Enter", "Interrupt", "EscapeCancel"}]_vars

\* C3: Enter on a non-empty text T fetches the corpus, counts, sets the
\* highlight for T under the current regex flag, issues no clear_highlight
\* and hands T to the last-search store; the highlight stays on the target.
C3_EnterKeepsHighlight ==
    [][(pc = "Editing" /\ event' = "Enter" /\ search_text # <<>>)
          => /\ pc' = "Exited"
             /\ Len(calls') >= 3
             /\ calls'[1].op = "get_text"
             /\ screen'.counter = <<count_matches(calls'[1].text, search_text, use_regex)>>
             /\ calls'[2] = Call("create_marker", search_text, use_regex)
             /\ calls'[3] = Call("write_cache", search_text, FALSE)
             /\ \A i \in 1..Len(calls') : calls'[i].op # "remove_marker"
             /\ marker' = MarkerFor(search_text, use_regex)]_vars

\* Enter closed a session in regex mode whose text had matches
C3_Witness ==
    /\ pc = "Exited" /\ event = "Enter"
    /\ search_text # <<>> /\ use_regex
    /\ screen.counter # <<>> /\ screen.counter[1] > 0
    /\ marker = MarkerFor(search_text, TRUE)

\* C4: when Interrupt or a bare Escape closes the session, clear_highlight
\* is issued while closing and no set_highlight follows it, so the target
\* is left without a highlight, whatever the text and the mode flags were.
C4_CancelClearsHighlight ==
    (pc = "Exited" /\ event \in {"Interrupt", "EscapeCancel"})
       => /\ \E i \in 1..Len(calls) :
               /\ calls[i].op = "remove_marker"
               /\ \A j \in (i + 1)..Len(calls) : calls[j].op # "create_marker"
          /\ marker = NoMarker

\* a bare Escape closed a session that had text, both modes on
C4_Witness ==
    /\ pc = "Exited" /\ event = "EscapeCancel"
    /\ cursor_pos > 0 /\ use_regex /\ auto_jump
    /\ last_counter # <<>>

\* C5 as stated: when Interrupt or a bare Escape closes the session while
\* the line holds T, the value handed to the last-search store is T.
C5_Original ==
    [][(pc = "Editing" /\ event' \in {"Interrupt", "EscapeCancel"})
          => \E i \in 1..Len(calls') :
               calls'[i] = Call("write_cache", search_text, FALSE)]_vars

\* C5 amended: when Interrupt or a bare Escape closes the session, the
\* value handed to the last-search store is the empty text, whatever the
\* line held, and a successful write leaves the store empty.
C5_CancelStoresEmpty ==
    [][(pc = "Editing" /\ event' \in {"Interrupt", "EscapeCancel"})
          => /\ \E i \in 1..Len(calls') : calls'[i].op = "write_cache"
             /\ \A i \in 1..Len(calls') :
                  calls'[i].op = "write_cache" => calls'[i].text = <<>>
             /\ cache_file' \in {<<>>, cache_file}
             /\ HasCall("unlink_position")' => cache_file' = <<>>]_vars

\* Interrupt closed a session whose line was not empty (the cursor was
\* inside it) and the store was written
C5_Witness ==
    /\ pc = "Exited" /\ event = "Interrupt"
    /\ cursor_pos > 0
    /\ HasCall("write_cache") /\ HasCall("unlink_position")
    /\ cache_file = <<>>

\* C6: on every way out after raw mode was entered - Enter, Interrupt,
\* Escape, an exception - bracketed paste is off and the terminal has the
\* settings captured before raw mode.
C6_TerminalRestored ==
    pc = "Exited" => (bracketed_paste = FALSE /\ tty = old_settings)

\* an exception ended the session from inside the loop
C6_Witness ==
    /\ Raised /\ event # "Startup"
    /\ bracketed_paste = FALSE /\ tty = old_settings

\* C7: a Backspace, WordBackspace or Paste that changes the text and leaves
\* it non-empty fetches a corpus, counts the new text in it under the
\* current regex flag and sets the highlight for the new text, all within
\* the step, that is before the next byte is read.
C7_RecountAfterEdit ==
    [][(pc = "Editing" /\ event' \in {"Backspace", "WordBackspace", "Paste"}
          /\ search_text' # search_text /\ search_text' # <<>>)
          => /\ Len(calls') >= 2
             /\ calls'[1].op = "get_text"
             /\ cached_scrollback' = <<calls'[1].text>>
             /\ last_counter' = <<count_matches(calls'[1].text, search_text', use_regex')>>
             /\ screen'.counter = last_counter'
             /\ screen'.text = search_text'
             /\ calls'[2] = Call("create_marker", search_text', use_regex')
             /\ marker' = MarkerFor(search_text', use_regex')]_vars

\* a Backspace has shortened the text to a non-empty one and searched it
C7_Witness ==
    /\ pc = "Editing" /\ event = "Backspace"
    /\ search_text # <<>>
    /\ HasCall("get_text") /\ HasCall("create_marker")
    /\ last_counter # <<>> /\ last_counter[1] > 0

\* C8: a Char event splices its fragment in at the cursor, advances the
\* cursor by the fragment's length, shows the prompt without a counter and
\* calls no collaborator; flags, marker and cached counter are unchanged.
C8_CharInsertEffect ==
    [][(pc = "Editing" /\ event' = "Char")
          => LET n == Len(search_text') - Len(search_text)
                 c == cursor_pos
             IN  /\ n >= 1
                 /\ cursor_pos' = c + n
                 /\ Slice(search_text', 0, c) = Slice(search_text, 0, c)
                 /\ Slice(search_text', c + n, Len(search_text'))
                      = Slice(search_text, c, Len(search_text))
                 /\ \A i \in (c + 1)..(c + n) : isprintable(search_text'[i])
                 /\ screen'.counter = <<>>
                 /\ screen'.text = search_text'
                 /\ screen'.cursor = cursor_pos'
                 /\ calls' = <<>>
                 /\ pc' = "Editing"
                 /\ UNCHANGED <<use_regex, auto_jump, marker, last_counter,
                                cached_scrollback, should_clear_on_exit>>]_vars

\* characters were typed in front of text that had a counter
C8_Witness ==
    /\ pc = "Editing" /\ event = "Char"
    /\ cursor_pos > 0 /\ cursor_pos < Len(search_text)
    /\ last_counter # <<>>
    /\ screen.counter = <<>>

\* C9: CursorLeft, CursorRight, WordLeft and WordRight change nothing but
\* the cursor (and the prompt line): text, flags, marker and counter stay,
\* and no collaborator is called, auto-jump on or off.
C9_CursorMovesOnly ==
    [][(pc = "Editing"
          /\ event' \in {"CursorLeft", "CursorRight", "WordLeft", "WordRight"})
          => /\ calls' = <<>>
             /\ pc' = "Editing"
             /\ screen'.cursor = cursor_pos' \/ screen' = screen
             /\ UNCHANGED <<search_text, use_regex, auto_jump, marker,
                            last_counter, cached_scrollback,
                            should_clear_on_exit, cache_file>>]_vars

\* the cursor moved left in a text with matches while auto-jump was on
C9_Witness ==
    /\ pc = "Editing" /\ event = "CursorLeft"
    /\ auto_jump
    /\ last_counter # <<>> /\ last_counter[1] > 0
    /\ cursor_pos < Len(search_text)
    /\ screen.cursor = cursor_pos

\* C10 as stated: every step that makes a re-count pass - the start-up
\* pass and the final pass on Enter included - invokes the jump
\* collaborator if and only if auto-jump is on and the count is positive.
C10_Original ==
    (pc # "Start" /\ HasCall("get_text"))
       => (HasCall("jump")
             <=> (auto_jump /\ count_matches(LastFetch, search_text, use_regex) > 0))

\* C10 amended: a re-count pass made through redraw_prompt inside the loop
\* invokes the jump collaborator if and only if auto-jump is on and the
\* count is positive; the final pass on Enter never invokes it; the
\* start-up pass over a reloaded term invokes it if and only if its count
\* is positive, auto-jump being off; jump is invoked in no other step.
C10_JumpPolicy ==
    /\ (event \notin {"Enter", "Startup"} /\ HasCall("get_text"))
          => /\ last_counter = <<count_matches(LastFetch, search_text, use_regex)>>
             /\ HasCall("jump") <=> (auto_jump /\ last_counter[1] > 0)
    /\ event = "Enter" => ~HasCall("jump")
    /\ (event = "Startup" /\ HasCall("get_text"))
          => /\ ~auto_jump
             /\ HasCall("jump")
                  <=> count_matches(LastFetch, search_text, use_regex) > 0
    /\ HasCall("jump") => HasCall("get_text")

\* a paste made the count positive with auto-jump on, and jump was invoked
C10_Witness ==
    /\ pc = "Editing" /\ event = "Paste"
    /\ auto_jump /\ last_counter # <<>> /\ last_counter[1] > 0
    /\ HasCall("jump") /\ HasCall("scroll_prev")

\* C14: in regex mode with a text that does not compile, every re-count
\* pass counts zero and shows 0, raises nothing and issues no jump; after a
\* pass of redraw_prompt the session is still in the loop, and the final
\* pass on Enter closes it the ordinary way.
C14_BadPatternCountsZero ==
    (pc # "Start" /\ use_regex /\ ~Compiles(search_text, TRUE)
       /\ HasCall("get_text"))
       => /\ screen.counter = <<0>>
          /\ screen.text = search_text
          /\ ~HasCall("jump")
          /\ ~Raised
          /\ event # "Enter" => (pc = "Editing" /\ last_counter = <<0>>)
          /\ event = "Enter" => HasCall("write_cache")

\* a pass with auto-jump on over a pattern that does not compile, in a
\* corpus where the same text taken literally would match
C14_Witness ==
    /\ pc = "Editing" /\ use_regex /\ auto_jump
    /\ ~Compiles(search_text, TRUE)
    /\ HasCall("get_text")
    /\ count_matches(LastFetch, search_text, FALSE) > 0
    /\ last_counter = <<0>>

\* C15: while the search text is empty, no step - start-up, Enter, refresh,
\* the toggles, ScrollPrev, ScrollNext, cursor movement, deletion - fetches
\* the corpus, sets a highlight, jumps or sends a scroll command.
C15_EmptyTextIsQuiet ==
    [][(pc # "Exited" /\ search_text = <<>> /\ search_text' = <<>>)
          => \A i \in 1..Len(calls') :
               calls'[i].op \notin {"get_text", "create_marker", "jump", "ls",
                                    "scroll_prev", "scroll_next"}]_vars

\* ScrollPrev was pressed over an empty text while the target still showed
\* a highlight, and nothing was sent
C15_Witness ==
    /\ pc = "Editing" /\ event = "ScrollPrev"
    /\ search_text = <<>> /\ marker.on
    /\ calls = <<>>

\* C16: a collaborator call that fails inside the loop - the corpus fetch
\* (answering the empty text), the topology query and the scroll commands
\* of a jump - never ends the session: the step that made the call leaves
\* the session in the loop.
C16_CollaboratorFailureSurvived ==
    (event \notin {"Init", "Startup", "Enter", "Interrupt", "EscapeCancel"}
       /\ (HasCall("get_text") \/ HasCall("ls")))
       => pc = "Editing"

\* C20: a Backspace or WordBackspace that empties the text issues
\* clear_highlight in the same step and leaves no highlight; a session that
\* closes after such a deletion with the text still empty leaves no
\* highlight and hands the empty text to the last-search store; and when
\* further edits have made the text T non-empty again, Enter sets the
\* highlight for T, issues no clear_highlight and hands T to the store.
C20_EmptyingDeletionClears ==
    [][/\ (pc = "Editing" /\ event' \in {"Backspace", "WordBackspace"}
             /\ search_text # <<>> /\ search_text' = <<>>)
          => /\ \E i \in 1..Len(calls') : calls'[i].op = "remove_marker"
             /\ \A i \in 1..Len(calls') : calls'[i].op # "create_marker"
             /\ marker' = NoMarker
             /\ should_clear_on_exit'
             /\ pc' = "Editing"
       /\ (pc = "Editing" /\ should_clear_on_exit /\ search_text = <<>>
             /\ pc' = "Exited" /\ search_text' = <<>>)
          => /\ marker = NoMarker /\ marker' = NoMarker
             /\ \E i \in 1..Len(calls') :
                  calls'[i] = Call("write_cache", <<>>, FALSE)
             /\ cache_file' \in {<<>>, cache_file}
             /\ HasCall("unlink_position")' => cache_file' = <<>>
       /\ (pc = "Editing" /\ should_clear_on_exit /\ search_text # <<>>
             /\ event' = "Enter")
          => /\ marker' = MarkerFor(search_text, use_regex)
             /\ \A i \in 1..Len(calls') : calls'[i].op # "remove_marker"
             /\ \E i \in 1..Len(calls') :
                  calls'[i] = Call("write_cache", search_text, FALSE)
             /\ search_text' = search_text
             /\ cache_file' \in {search_text, cache_file}]_vars

\* a deletion has just emptied the text and cleared the highlight
C20_Witness ==
    /\ pc = "Editing"
    /\ event \in {"Backspace", "WordBackspace"}
    /\ search_text = <<>> /\ should_clear_on_exit
    /\ HasCall("remove_marker") /\ marker = NoMarker

\* C22: a counter on the prompt line is the match count of the text shown
\* with it, in the corpus last fetched and under the current regex flag; a
\* redraw that does not count again never shows a count made for an
\* earlier text.
C22_CounterMatchesText ==
    (pc = "Editing" /\ screen.counter # <<>>)
       => /\ cached_scrollback # <<>>
          /\ screen.text = search_text
          /\ screen.counter[1] =
               count_matches(cached_scrollback[1], search_text, use_regex)

\* C23: when ScrollPrev or ScrollNext has issued its scroll-to-match
\* command, the highlight last set on the target is the one for the current
\* text under the current regex flag.
C23_ScrollUsesCurrentHighlight ==
    (pc = "Editing" /\ event \in {"ScrollPrev", "ScrollNext"}
       /\ calls # <<>>
       /\ calls[Len(calls)].op \in {"scroll_prev", "scroll_next"})
       => marker = MarkerFor(search_text, use_regex)

(***************************************************************************)
(* Properties of the byte decoder, over the recorded bytes of DecoderSpec  *)
(* (C12: over the first byte of each step, under DispatchSpec).            *)
(***************************************************************************)
PasteOpen == <<ESC, LBRACKET, 50>> \o PasteStart
PasteClose == <<ESC>> \o PasteEndMarker
\* bytes is ESC [ 2 0 0 ~, a content without ESC, ESC [ 2 0 1 ~
IsCleanPaste(bytes) ==
    /\ Len(bytes) >= 12
    /\ SubSeq(bytes, 1, 6) = PasteOpen
    /\ SubSeq(bytes, Len(bytes) - 5, Len(bytes)) = PasteClose
    /\ \A i \in 7..(Len(bytes) - 6) : bytes[i] # ESC
PasteContent(bytes) == SubSeq(bytes, 7, Len(bytes) - 6)

\* C11: a step that reads ESC [ 2 0 0 ~, content bytes without ESC and
\* ESC [ 2 0 1 ~ is one Paste event: the content is spliced in verbatim at
\* the cursor, the cursor advances by its length, and the session stays in
\* the loop (no byte of the sequence closes it).
C11_CleanPasteVerbatim ==
    [][(pc = "Editing" /\ IsCleanPaste(consumed'))
          => /\ event' = "Paste"
             /\ search_text' = Splice(search_text, cursor_pos, PasteContent(consumed'))
             /\ cursor_pos' = cursor_pos + Len(PasteContent(consumed'))
             /\ pc' = "Editing"]_vars

\* the first byte of the step, the one the ground state dispatches on
Dispatched(b) == pc = "Editing" /\ consumed' # <<>> /\ consumed'[1] = b
DispatchedIn(S) == pc = "Editing" /\ consumed' # <<>> /\ consumed'[1] \in S
\* the step changed nothing the user or a collaborator can see
NoEffect ==
    /\ calls' = <<>> /\ pc' = "Editing"
    /\ UNCHANGED <<search_text, cursor_pos, use_regex, auto_jump, marker,
                   screen, last_counter, cache_file>>
Ignored == event' = "None" /\ NoEffect
EscapeEvents ==
    {"WordBackspace", "EscapeCancel", "Paste", "ScrollPrev", "ScrollNext",
     "CursorLeft", "CursorRight", "WordLeft", "WordRight", "None"}

\* C12 as stated: 0x03 gives Interrupt, 0x0d and 0x0a give Enter, 0x7f and
\* 0x08 give Backspace, 0x09 gives ToggleRegex, 0x1b starts an escape
\* sequence, a printable byte gives Char, any other byte is ignored.
C12_Original ==
    [][/\ Dispatched(ETX) => event' = "Interrupt"
       /\ (Dispatched(CR) \/ Dispatched(LF)) => event' = "Enter"
       /\ (Dispatched(DEL) \/ Dispatched(8)) => event' = "Backspace"
       /\ Dispatched(TAB) => event' = "ToggleRegex"
       /\ Dispatched(ESC) => event' \in EscapeEvents
       /\ DispatchedIn(32..126) => event' = "Char"
       /\ DispatchedIn((0..31) \ {ETX, CR, LF, 8, TAB, ESC}) => NoEffect
      ]_vars

\* C12 amended: 0x03 gives Interrupt and closes, 0x0d gives Enter and
\* closes, 0x0a gives ToggleAutoJump, 0x7f gives Backspace, 0x09 gives
\* ToggleRegex, 0x12 gives Refresh, 0x1b starts an escape sequence, a
\* printable byte gives Char, and any other byte, 0x08 included, is ignored:
\* no change of text, cursor, flags or prompt and no collaborator call.
C12_Dispatch ==
    [][/\ Dispatched(ETX) => (event' = "Interrupt" /\ pc' = "Exited")
       /\ Dispatched(CR) => (event' = "Enter" /\ pc' = "Exited")
       /\ Dispatched(LF) =>
            /\ event' = "ToggleAutoJump" /\ auto_jump' = ~auto_jump
            /\ UNCHANGED <<search_text, cursor_pos, use_regex>>
       /\ Dispatched(DEL) =>
            /\ event' = "Backspace"
            /\ cursor_pos > 0 =>
                 /\ cursor_pos' = cursor_pos - 1
                 /\ Len(search_text') = Len(search_text) - 1
            /\ cursor_pos = 0 => UNCHANGED <<search_text, cursor_pos>>
       /\ Dispatched(TAB) =>
            /\ event' = "ToggleRegex" /\ use_regex' = ~use_regex
            /\ UNCHANGED <<search_text, cursor_pos, auto_jump>>
       /\ Dispatched(DC2) =>
            /\ event' = "Refresh"
            /\ UNCHANGED <<search_text, cursor_pos, use_regex, auto_jump>>
       /\ Dispatched(ESC) => event' \in EscapeEvents
       /\ DispatchedIn(32..126) =>
            (event' = "Char" /\ Len(search_text') > Len(search_text))
       /\ DispatchedIn((0..31) \ {ETX, CR, LF, TAB, DC2, ESC}) => Ignored
      ]_vars

\* 0x0a has just switched auto-jump on over a non-empty text, and the
\* session is still in the loop
C12_Witness ==
    /\ pc = "Editing" /\ consumed = <<LF>> /\ event = "ToggleAutoJump"
    /\ auto_jump /\ search_text # <<>>

\* ESC [, parameter and intermediate bytes, one final byte and no more
IsCompleteCsi(bytes) ==
    /\ Len(bytes) >= 3
    /\ bytes[1] = ESC /\ bytes[2] = LBRACKET
    /\ bytes[Len(bytes)] \in 64..126
    /\ \A i \in 3..(Len(bytes) - 1) : bytes[i] \in 32..63

\* C17: a step that reads a CSI sequence the decoder does not recognize
\* produces no key event and reads the sequence whole - up to its final
\* byte, so that none of its bytes is left to be read as input, and not
\* beyond it, so that no following byte is swallowed - and text, cursor and
\* flags stay what they were.
C17_UnknownCsiConsumedWhole ==
    [][(pc = "Editing" /\ event' = "None"
          /\ Len(consumed') >= 2
          /\ consumed'[1] = ESC /\ consumed'[2] = LBRACKET)
          => (IsCompleteCsi(consumed') /\ NoEffect)]_vars

\* bytes is ESC [ 2 0 0 ~, a content holding an ESC, ESC [ 2 0 1 ~
IsPasteWithEscape(bytes) ==
    /\ Len(bytes) >= 12
    /\ SubSeq(bytes, 1, 6) = PasteOpen
    /\ SubSeq(bytes, Len(bytes) - 5, Len(bytes)) = PasteClose
    /\ \E i \in 7..(Len(bytes) - 6) : bytes[i] = ESC

\* C18: a paste whose content holds an ESC followed by five bytes that are
\* not [201~ inserts every byte received between the start and the end
\* marker, the ESC and those five bytes included.
C18_PasteKeepsEveryByte ==
    [][(pc = "Editing" /\ event' = "Paste" /\ IsPasteWithEscape(consumed'))
          => search_text' =
               Splice(search_text, cursor_pos, PasteContent(consumed'))]_vars

\* C19: a step that coalesces a burst into one Char event reads printable
\* bytes only: a non-printable byte that follows the burst stays unread, to
\* be decoded as its own event by the next step.
C19_BurstTakesPrintableOnly ==
    [][(pc = "Editing" /\ event' = "Char")
          => \A i \in 1..Len(consumed') : isprintable(consumed'[i])]_vars

(***************************************************************************)
(* Properties of the word-wise operations, over WordSpec.                  *)
(***************************************************************************)
Max(S) == CHOOSE x \in S : \A y \in S : y <= x
\* a scan going left stops with its index at i (0-based, i >= 1)
StopsAt(T, i) ==
    LET prev == At(T, i - 1)
        curr == At(T, i)
    IN  \/ isblank(prev)
        \/ prev = 95 \/ curr = 95
        \/ islower(prev) /\ isupper(curr)
        \/ isdigit(prev) # isdigit(curr)
\* the smart boundary left of offset c, as the claim words it
SmartBoundary(T, c) ==
    LET NonBlank == {i \in 0..(c - 1) : ~isblank(At(T, i))}
    IN  IF NonBlank = {} THEN 0
        ELSE LET Stops == {i \in 1..Max(NonBlank) : StopsAt(T, i)}
                 i == IF Stops = {} THEN 0 ELSE Max(Stops)
             IN  IF i > 0 /\ At(T, i - 1) = 95 THEN i - 1 ELSE i

\* C13: WordBackspace with cursor c > 0 removes exactly T[b..c) and puts
\* the cursor at b, where b < c is the smart boundary (trailing blanks
\* skipped, then the nearest stop to the left: a blank on the left, an
\* underscore - consumed when it is on the left -, a lower-to-upper or a
\* digit/non-digit transition); the text right of the cursor is unchanged;
\* at the end of foo_bar, fooBar and foo123 this leaves foo.
C13_WordBackspaceBoundary ==
    [][(pc = "Editing" /\ event' = "WordBackspace" /\ cursor_pos > 0)
          => LET b == SmartBoundary(search_text, cursor_pos)
             IN  /\ b < cursor_pos
                 /\ cursor_pos' = b
                 /\ search_text' = Slice(search_text, 0, b) \o
                                   Slice(search_text, cursor_pos, Len(search_text))
                 /\ (search_text \in WordExamples
                       /\ cursor_pos = Len(search_text))
                      => search_text' = <<102, 111, 111>>]_vars

\* a word-backspace at the end of one of the three texts has left foo
C13_Witness ==
    /\ event = "WordBackspace"
    /\ search_text = <<102, 111, 111>> /\ cursor_pos = 3
    /\ HasCall("create_marker")


\* offsets i right of p where T[i-1], T[i] is a lower-to-upper or a
\* digit/non-digit transition
TransitionsRight(T, p) ==
    {i \in (p + 1)..(Len(T) - 1) :
        \/ islower(At(T, i - 1)) /\ isupper(At(T, i))
        \/ isdigit(At(T, i - 1)) # isdigit(At(T, i))}

\* C21: a rightward word move from offset p never lands past the first
\* lower-to-upper or digit/non-digit transition right of p; from offset 0
\* it lands on 3 in fooBar and in foo123.
C21_WordRightStopsAtBoundary ==
    [][(pc = "Editing" /\ event' = "WordRight")
          => /\ \A i \in TransitionsRight(search_text, cursor_pos) :
                  cursor_pos' <= i
             /\ (search_text \in {<<102, 111, 111, 66, 97, 114>>,
                                  <<102, 111, 111, 49, 50, 51>>}
                   /\ cursor_pos = 0)
                  => cursor_pos' = 3]_vars

====
